---- MODULE Spec2Model ----
(***************************************************************************)
(* Model of the sequential-thinking tool server (server.go):              *)
(* SequentialThinkingServer and its handler ProcessThought, run by         *)
(* several goroutines at once against one server value.                    *)
(*                                                                         *)
(* Go strings are modelled as sequences of bytes (<<97>> is "a"), so that  *)
(* the byte-wise order used by sort.SearchStrings is computed, not assumed.*)
(* A Go []string result is a record [isNil, elems], so that the nil slice  *)
(* and a non-empty slice are different values.                             *)
(***************************************************************************)
EXTENDS Integers, Sequences, FiniteSets, TLC

\* Bound: the total number of ProcessThought calls started in one behaviour.
MaxCalls == 3

\* The number of calls of the specification that follows the backing array
\* of s.branchKeys: four, for the array to hold three keys with room for one.
MaxAliasCalls == 4

\* The goroutines that call ProcessThought concurrently.
Procs == {"g1", "g2"}

----------------------------------------------------------------------------
\* Strings used as inputs.
EmptyString == <<>>
StrA == <<97>>
StrAA == <<97, 97>>
StrAB == <<97, 98>>
StrB == <<98>>
StrT == <<116>>

\* The error values returned by validateThoughtData; NilErr is Go's nil error.
NilErr == "nil"
ErrThought == "invalid thought: must be a string"
ErrThoughtNumber == "invalid thoughtNumber: must be a number > 0"
ErrTotalThoughts == "invalid totalThoughts: must be a number > 0"

\* A ThoughtData value.
ThoughtData(t, next, n, total, rev, revises, from, id, more) ==
    [Thought |-> t, NextThoughtNeeded |-> next, ThoughtNumber |-> n,
     TotalThoughts |-> total, IsRevision |-> rev, RevisesThought |-> revises,
     BranchFromThought |-> from, BranchId |-> id, NeedsMoreThoughts |-> more]

\* The zero ThoughtData, held by a goroutine that has not been called yet.
ZeroThoughtData == ThoughtData(EmptyString, FALSE, 0, 0, FALSE, 0, 0, EmptyString, FALSE)

\* Inputs that exercise validation: every combination of empty/non-empty text
\* and of the two counters on both sides of their limit; each carries a
\* branch registration, which a rejected call must not perform.
ValidationInputs ==
    { ThoughtData(t, FALSE, n, total, FALSE, 0, -1, StrA, FALSE) :
        t \in {EmptyString, StrT}, n \in {0, 1}, total \in {0, 1} }

\* Inputs that exercise normalisation: the number below, at and above the total.
NormalizationInputs ==
    { ThoughtData(StrT, FALSE, n, total, FALSE, 0, 0, EmptyString, FALSE) :
        n \in {1, 2}, total \in {1, 2} }

\* Inputs that exercise branch registration: the branch trigger true and
\* false, with every branch identifier.
BranchInputs ==
    { ThoughtData(StrT, FALSE, 1, 1, FALSE, 0, from, id, FALSE) :
        from \in {-1, 1}, id \in {EmptyString, StrA, StrAB, StrB} }
    \cup { ThoughtData(StrT, FALSE, 1, 1, FALSE, 0, 0, StrB, FALSE) }

\* Inputs that vary the fields the mutation does not read.
FlagInputs ==
    { ThoughtData(StrT, next, 1, 2, r[1], r[2], -1, StrB, FALSE) :
        next \in BOOLEAN, r \in {<<FALSE, 0>>, <<TRUE, -2>>, <<TRUE, 1>>} }
    \cup { ThoughtData(StrT, TRUE, 2, 1, TRUE, 1, 1, StrA, TRUE) }

\* Inputs that register four branches, "aa" sorting between "a" and "ab".
AliasInputs ==
    { ThoughtData(StrT, FALSE, 1, 1, FALSE, 0, -1, id, FALSE) :
        id \in {StrA, StrAA, StrAB, StrB} }

Inputs == ValidationInputs \cup NormalizationInputs \cup BranchInputs \cup FlagInputs

----------------------------------------------------------------------------
\* The nil []string and a non-nil []string.
NilSlice == [isNil |-> TRUE, elems |-> <<>>]
Slice(s) == [isNil |-> FALSE, elems |-> s]

\* The zero Output and the Output built by ProcessThought.
Output(n, total, next, brs, hlen) ==
    [ThoughtNumber |-> n, TotalThoughts |-> total, NextThoughtNeeded |-> next,
     Branches |-> brs, ThoughtHistoryLength |-> hlen]

\* What a call returns: the result (present or nil) and the error.
NoCallYet == [hasResult |-> FALSE, output |-> Output(0, 0, FALSE, NilSlice, 0), err |-> NilErr]
Failure(e) == [hasResult |-> FALSE, output |-> Output(0, 0, FALSE, NilSlice, 0), err |-> e]
Success(o) == [hasResult |-> TRUE, output |-> o, err |-> NilErr]

----------------------------------------------------------------------------
\* validateThoughtData without the rule on the thought text.
validateWithoutThoughtRule(input) ==
    IF input.ThoughtNumber <= 0 THEN ErrThoughtNumber
    ELSE IF input.TotalThoughts <= 0 THEN ErrTotalThoughts
    ELSE NilErr

\* validateThoughtData rejecting only negative numbers.
validateOnlyNegative(input) ==
    IF input.Thought = EmptyString THEN ErrThought
    ELSE IF input.ThoughtNumber < 0 THEN ErrThoughtNumber
    ELSE IF input.TotalThoughts < 0 THEN ErrTotalThoughts
    ELSE NilErr

\* validateThoughtData with the two number rules in the other order.
validateTotalFirst(input) ==
    IF input.Thought = EmptyString THEN ErrThought
    ELSE IF input.TotalThoughts <= 0 THEN ErrTotalThoughts
    ELSE IF input.ThoughtNumber <= 0 THEN ErrThoughtNumber
    ELSE NilErr

\* validateThoughtData rejecting a thought number beyond the total.
validateWithinTotal(input) ==
    IF input.Thought = EmptyString THEN ErrThought
    ELSE IF input.ThoughtNumber <= 0 THEN ErrThoughtNumber
    ELSE IF input.TotalThoughts <= 0 THEN ErrTotalThoughts
    ELSE IF input.ThoughtNumber > input.TotalThoughts THEN ErrThoughtNumber
    ELSE NilErr

\* validateThoughtData: the first failing rule decides the error.
validateThoughtData(input) ==
    IF input.Thought = EmptyString THEN ErrThought
    ELSE IF input.ThoughtNumber <= 0 THEN ErrThoughtNumber
    ELSE IF input.TotalThoughts <= 0 THEN ErrTotalThoughts
    ELSE NilErr

\* normalize that sets the total to the number in both directions.
normalizeBothWays(input) == [input EXCEPT !.TotalThoughts = input.ThoughtNumber]

\* The normalisation of ProcessThought: the total is raised to the number.
normalize(input) ==
    IF input.ThoughtNumber > input.TotalThoughts
    THEN [input EXCEPT !.TotalThoughts = input.ThoughtNumber]
    ELSE input

\* Go's string order: byte-wise, a proper prefix is smaller.
RECURSIVE StrLess(_, _)
StrLess(a, b) ==
    IF b = <<>> THEN FALSE
    ELSE IF a = <<>> THEN TRUE
    ELSE IF Head(a) # Head(b) THEN Head(a) < Head(b)
    ELSE StrLess(Tail(a), Tail(b))

\* sort.Search over [i, j) for the first index whose element is >= x
\* (indices are Go's, from 0; a[h + 1] is Go's a[h]).
RECURSIVE Search(_, _, _, _)
Search(a, x, i, j) ==
    IF i < j
    THEN LET h == (i + j) \div 2
         IN IF StrLess(a[h + 1], x) THEN Search(a, x, h + 1, j)
                                    ELSE Search(a, x, i, h)
    ELSE i

SearchStrings(a, x) == Search(a, x, 0, Len(a))

\* insertKey that shifts the tail without growing the slice first.
insertKeyWithoutGrow(keys, branchID) ==
    LET insertAt == SearchStrings(keys, branchID)
    IN IF insertAt = Len(keys) THEN Append(keys, branchID)
       ELSE [i \in 1..Len(keys) |->
                IF i > insertAt + 1 THEN keys[i - 1]
                ELSE IF i = insertAt + 1 THEN branchID ELSE keys[i]]

\* insertKey that overwrites the slot instead of shifting the tail.
insertKeyOverwrite(keys, branchID) ==
    LET insertAt == SearchStrings(keys, branchID)
    IN IF insertAt = Len(keys) THEN Append(keys, branchID)
       ELSE [keys EXCEPT ![insertAt + 1] = branchID]

\* insertKey with the sorted position ignored: the identifier goes to the end.
insertKeyAtEnd(keys, branchID) == Append(keys, branchID)

\* The insertion of branchID into the sorted branchKeys.
insertKey(keys, branchID) ==
    LET insertAt == SearchStrings(keys, branchID)
    IN IF insertAt = Len(keys) THEN Append(keys, branchID)
       ELSE IF keys[insertAt + 1] # branchID
       THEN LET grown == Append(keys, EmptyString)
                shifted == [i \in 1..Len(grown) |->
                               IF i > insertAt + 1 THEN grown[i - 1] ELSE grown[i]]
            IN [shifted EXCEPT ![insertAt + 1] = branchID]
       ELSE keys

\* The gate without the test of branchFromThought.
isBranchRegistrationByIdOnly(input) == input.BranchId # EmptyString

\* The gate of the branch registration.
isBranchRegistration(input) ==
    input.BranchFromThought < 0 /\ input.BranchId # EmptyString

----------------------------------------------------------------------------
\* The log frame of a call that wrote none.
NoContext == [kind |-> "none", thought |-> 0, id |-> EmptyString]
NoFrame == [written |-> FALSE, prefix |-> "", color |-> "", number |-> 0, total |-> 0,
            context |-> NoContext, thought |-> EmptyString]

\* The frame formatThought renders: the prefix and its colour, the header
\* "prefix N/M context", and the thought text below it.
Frame(prefix, color, context, thoughtData) ==
    [written |-> TRUE, prefix |-> prefix, color |-> color,
     number |-> thoughtData.ThoughtNumber, total |-> thoughtData.TotalThoughts,
     context |-> context, thought |-> thoughtData.Thought]

Revising(r) == [kind |-> "revising thought", thought |-> r, id |-> EmptyString]
FromThought(f, branchID) == [kind |-> "from thought", thought |-> f, id |-> branchID]

\* formatThought that classifies as the mutation does: a branch frame for
\* what is registered as a branch, before the test of isRevision.
formatThoughtByRegistration(thoughtData) ==
    IF isBranchRegistration(thoughtData)
    THEN Frame("Branch", "green",
               FromThought(thoughtData.BranchFromThought, thoughtData.BranchId),
               thoughtData)
    ELSE IF thoughtData.IsRevision
    THEN Frame("Revision", "yellow",
               IF thoughtData.RevisesThought < 0 THEN Revising(thoughtData.RevisesThought)
                                                 ELSE NoContext,
               thoughtData)
    ELSE Frame("Thought", "blue", NoContext, thoughtData)

\* formatThought: the two switches choose prefix, context and colour.
formatThought(thoughtData) ==
    IF thoughtData.IsRevision
    THEN Frame("Revision", "yellow",
               IF thoughtData.RevisesThought < 0 THEN Revising(thoughtData.RevisesThought)
                                                 ELSE NoContext,
               thoughtData)
    ELSE IF thoughtData.BranchFromThought < 0
    THEN Frame("Branch", "green",
               FromThought(thoughtData.BranchFromThought, thoughtData.BranchId),
               thoughtData)
    ELSE Frame("Thought", "blue", NoContext, thoughtData)

\* The backing array of the nil s.branchKeys, and the array of a slice that
\* has a backing array of its own, which no other slice points into.
NilBacking == [id |-> 0, cap |-> 0]
PrivateArray == 0

\* The capacity append gives the new array of a full []string.
grow(cap) == IF cap = 0 THEN 1 ELSE 2 * cap

\* The array s.branchKeys has after the insert that turns keys into newKeys:
\* the same one if nothing was appended or the capacity sufficed.
backingAfter(b, keys, newKeys) ==
    IF Len(newKeys) = Len(keys) \/ Len(keys) < b.cap THEN b
    ELSE [id |-> b.id + 1, cap |-> grow(b.cap)]

\* What a slice of array `array` reads after that insert: a slice into the
\* array s.branchKeys keeps sees the cells the insert wrote in place.
readThrough(slice, array, b, keys, newKeys) ==
    IF ~slice.isNil /\ array # PrivateArray /\ array = b.id
       /\ backingAfter(b, keys, newKeys) = b
    THEN Slice(SubSeq(newKeys, 1, Len(slice.elems)))
    ELSE slice

\* A server value as NewSequentialThinkingServer returns it.
NewServer(logging) ==
    [thoughtHistory |-> 0, branches |-> {}, branchKeys |-> <<>>,
     enableThoughtLogging |-> logging]

\* Two fresh servers, one with logging enabled and one without, before
\* the first input is given to both.
PairStart ==
    [on |-> NewServer(TRUE), off |-> NewServer(FALSE),
     resultOn |-> NoCallYet, resultOff |-> NoCallYet,
     last |-> ZeroThoughtData, writeOk |-> TRUE, writes |-> 0, n |-> 0]

\* The values of the flags -logpath and -http: unset, usable, and not usable
\* (a directory, a port outside the range).
LogPaths == {"", "file", "directory"}
HTTPAddrs == {"", "valid", "invalid"}

\* The errors run() makes, by the text they wrap or carry.
ErrOpen == "open"
ErrInputSchema == "parse ThoughtData"
ErrOutputSchema == "output schema"
ErrServeHTTP == "serve sequential thinking mcp http server"
ErrServeStdio == "serve sequential thinking mcp stdio server"

\* run() before the process has called it.
RunNotStarted ==
    [pc |-> "not started", flagLogPath |-> "", flagHTTPAddr |-> "", f |-> "nil",
     failed |-> "none", outcome |-> "none", err |-> NilErr]

----------------------------------------------------------------------------
VARIABLES
    thoughtHistory,        \* len(s.thoughtHistory)
    branches,              \* the keys of the map s.branches
    branchKeys,            \* s.branchKeys
    enableThoughtLogging,  \* s.enableThoughtLogging
    mu,                    \* s.mu: "unlocked" or the goroutine holding it
    pc,                    \* where each goroutine is in ProcessThought
    arg,                   \* the ThoughtData each goroutine was called with
    input,                 \* the callee's copy of it (normalised)
    branchesSnapshot,      \* local branchesSnapshot
    historyLen,            \* local historyLen
    result,                \* what the goroutine's last call returned
    stderr,                \* number of frames written to os.Stderr
    calls,                 \* history: calls started
    accepted,              \* history: calls that passed validation
    returned,              \* history: how often each history length was returned
    before,                \* history: shared state when the call got the lock
    mutated,               \* history: shared state when the call ended its mutation
    grants,                \* history: how often the lock was granted
    ticket,                \* history: the how-manieth grant the call's lock was
    lastFrame,             \* the frame each goroutine's call wrote to os.Stderr
    backing,               \* the backing array of s.branchKeys: identity and capacity
    aliases,               \* the backing array each branchesSnapshot points into
    pair,                  \* two servers, logging on and off, fed the same inputs
    run                    \* the state of run() in the process entry point

vars == <<thoughtHistory, branches, branchKeys, enableThoughtLogging, mu, pc,
          arg, input, branchesSnapshot, historyLen, result, stderr, calls,
          accepted, returned, before, mutated, grants, ticket, lastFrame,
          backing, aliases, pair, run>>

shared == <<thoughtHistory, branches, branchKeys>>

SharedNow == [keys |-> branchKeys, map |-> branches, len |-> thoughtHistory]

\* NewSequentialThinkingServer; the logging flag is read from the environment.
Init ==
    /\ thoughtHistory = 0
    /\ branches = {}
    /\ branchKeys = <<>>
    /\ enableThoughtLogging \in BOOLEAN
    /\ mu = "unlocked"
    /\ pc = [p \in Procs |-> "idle"]
    /\ arg = [p \in Procs |-> ZeroThoughtData]
    /\ input = [p \in Procs |-> ZeroThoughtData]
    /\ branchesSnapshot = [p \in Procs |-> NilSlice]
    /\ historyLen = [p \in Procs |-> 0]
    /\ result = [p \in Procs |-> NoCallYet]
    /\ stderr = 0
    /\ calls = 0
    /\ accepted = 0
    /\ returned = [k \in {} |-> 0]
    /\ before = [p \in Procs |-> [keys |-> <<>>, map |-> {}, len |-> 0]]
    /\ mutated = [p \in Procs |-> [keys |-> <<>>, map |-> {}, len |-> 0]]
    /\ grants = 0
    /\ ticket = [p \in Procs |-> 0]
    /\ lastFrame = [p \in Procs |-> NoFrame]
    /\ backing = NilBacking
    /\ aliases = [p \in Procs |-> PrivateArray]
    /\ pair = PairStart
    /\ run = RunNotStarted

\* Call that records the thought in the history before it validates it.
CallAppendsBeforeValidation(p, in) ==
    /\ pc[p] \in {"idle", "done"}
    /\ calls < MaxCalls
    /\ calls' = calls + 1
    /\ arg' = [arg EXCEPT ![p] = in]
    /\ branchesSnapshot' = [branchesSnapshot EXCEPT ![p] = NilSlice]
    /\ historyLen' = [historyLen EXCEPT ![p] = 0]
    /\ thoughtHistory' = thoughtHistory + 1
    /\ IF validateThoughtData(in) # NilErr
       THEN /\ result' = [result EXCEPT ![p] = Failure(validateThoughtData(in))]
            /\ input' = [input EXCEPT ![p] = in]
            /\ pc' = [pc EXCEPT ![p] = "done"]
            /\ UNCHANGED accepted
       ELSE /\ result' = [result EXCEPT ![p] = NoCallYet]
            /\ input' = [input EXCEPT ![p] = normalize(in)]
            /\ pc' = [pc EXCEPT ![p] = "lock"]
            /\ accepted' = accepted + 1
    /\ lastFrame' = [lastFrame EXCEPT ![p] = NoFrame]
    /\ aliases' = [aliases EXCEPT ![p] = PrivateArray]
    /\ UNCHANGED <<branches, branchKeys, enableThoughtLogging, mu, stderr, returned,
                   before, mutated>>
    /\ UNCHANGED <<grants, ticket, backing, pair, run>>

\* ProcessThought up to the lock: validation, early return, normalisation.
Call(p, in) ==
    /\ pc[p] \in {"idle", "done"}
    /\ calls < MaxCalls
    /\ calls' = calls + 1
    /\ arg' = [arg EXCEPT ![p] = in]
    /\ branchesSnapshot' = [branchesSnapshot EXCEPT ![p] = NilSlice]
    /\ historyLen' = [historyLen EXCEPT ![p] = 0]
    /\ IF validateThoughtData(in) # NilErr
       THEN /\ result' = [result EXCEPT ![p] = Failure(validateThoughtData(in))]
            /\ input' = [input EXCEPT ![p] = in]
            /\ pc' = [pc EXCEPT ![p] = "done"]
            /\ UNCHANGED accepted
       ELSE /\ result' = [result EXCEPT ![p] = NoCallYet]
            /\ input' = [input EXCEPT ![p] = normalize(in)]
            /\ pc' = [pc EXCEPT ![p] = "lock"]
            /\ accepted' = accepted + 1
    /\ lastFrame' = [lastFrame EXCEPT ![p] = NoFrame]
    /\ aliases' = [aliases EXCEPT ![p] = PrivateArray]
    /\ UNCHANGED <<shared, enableThoughtLogging, mu, stderr, returned, before, mutated>>
    /\ UNCHANGED <<grants, ticket, backing, pair, run>>

\* The same step, in the specification that follows the backing array.
AliasCall(p, in) ==
    /\ pc[p] \in {"idle", "done"}
    /\ calls < MaxAliasCalls
    /\ calls' = calls + 1
    /\ arg' = [arg EXCEPT ![p] = in]
    /\ branchesSnapshot' = [branchesSnapshot EXCEPT ![p] = NilSlice]
    /\ historyLen' = [historyLen EXCEPT ![p] = 0]
    /\ IF validateThoughtData(in) # NilErr
       THEN /\ result' = [result EXCEPT ![p] = Failure(validateThoughtData(in))]
            /\ input' = [input EXCEPT ![p] = in]
            /\ pc' = [pc EXCEPT ![p] = "done"]
            /\ UNCHANGED accepted
       ELSE /\ result' = [result EXCEPT ![p] = NoCallYet]
            /\ input' = [input EXCEPT ![p] = normalize(in)]
            /\ pc' = [pc EXCEPT ![p] = "lock"]
            /\ accepted' = accepted + 1
    /\ lastFrame' = [lastFrame EXCEPT ![p] = NoFrame]
    /\ aliases' = [aliases EXCEPT ![p] = PrivateArray]
    /\ UNCHANGED <<shared, enableThoughtLogging, mu, stderr, returned, before, mutated>>
    /\ UNCHANGED <<grants, ticket, backing, pair, run>>

\* Lock that does not wait for the mutex to be free.
LockWithoutMutex(p) ==
    /\ pc[p] = "lock"
    /\ mu' = p
    /\ pc' = [pc EXCEPT ![p] = "append"]
    /\ before' = [before EXCEPT ![p] = SharedNow]
    /\ grants' = grants + 1
    /\ ticket' = [ticket EXCEPT ![p] = grants + 1]
    /\ UNCHANGED <<lastFrame, backing, aliases, pair, run>>
    /\ UNCHANGED <<shared, enableThoughtLogging, arg, input, branchesSnapshot,
                   historyLen, result, stderr, calls, accepted, returned, mutated>>

\* s.mu.Lock()
Lock(p) ==
    /\ pc[p] = "lock"
    /\ mu = "unlocked"
    /\ mu' = p
    /\ pc' = [pc EXCEPT ![p] = "append"]
    /\ before' = [before EXCEPT ![p] = SharedNow]
    /\ grants' = grants + 1
    /\ ticket' = [ticket EXCEPT ![p] = grants + 1]
    /\ UNCHANGED <<lastFrame, backing, aliases, pair, run>>
    /\ UNCHANGED <<shared, enableThoughtLogging, arg, input, branchesSnapshot,
                   historyLen, result, stderr, calls, accepted, returned, mutated>>

\* AppendHistory that counts only the thoughts that register no branch.
AppendHistoryUnlessBranch(p) ==
    /\ pc[p] = "append"
    /\ thoughtHistory' = IF isBranchRegistration(input[p]) THEN thoughtHistory
                                                           ELSE thoughtHistory + 1
    /\ pc' = [pc EXCEPT ![p] = "register"]
    /\ UNCHANGED <<branches, branchKeys, enableThoughtLogging, mu, arg, input,
                   branchesSnapshot, historyLen, result, stderr, calls, accepted,
                   returned, before, mutated>>
    /\ UNCHANGED <<grants, ticket, lastFrame, backing, aliases, pair, run>>

\* AppendHistory that does not count a thought whose branch is already known.
AppendHistoryUnlessKnownBranch(p) ==
    /\ pc[p] = "append"
    /\ thoughtHistory' =
           IF isBranchRegistration(input[p]) /\ input[p].BranchId \in branches
           THEN thoughtHistory ELSE thoughtHistory + 1
    /\ pc' = [pc EXCEPT ![p] = "register"]
    /\ UNCHANGED <<branches, branchKeys, enableThoughtLogging, mu, arg, input,
                   branchesSnapshot, historyLen, result, stderr, calls, accepted,
                   returned, before, mutated>>
    /\ UNCHANGED <<grants, ticket, lastFrame, backing, aliases, pair, run>>

\* s.thoughtHistory = append(s.thoughtHistory, struct{}{})
AppendHistory(p) ==
    /\ pc[p] = "append"
    /\ thoughtHistory' = thoughtHistory + 1
    /\ pc' = [pc EXCEPT ![p] = "register"]
    /\ UNCHANGED <<branches, branchKeys, enableThoughtLogging, mu, arg, input,
                   branchesSnapshot, historyLen, result, stderr, calls, accepted,
                   returned, before, mutated>>
    /\ UNCHANGED <<grants, ticket, lastFrame, backing, aliases, pair, run>>

\* RegisterBranch without the lookup in the map: every registration goes on
\* to the insert into the key list.
RegisterBranchWithoutLookup(p) ==
    /\ pc[p] = "register"
    /\ IF isBranchRegistration(input[p])
       THEN /\ branches' = branches \cup {input[p].BranchId}
            /\ pc' = [pc EXCEPT ![p] = "insert"]
            /\ UNCHANGED mutated
       ELSE /\ pc' = [pc EXCEPT ![p] = "snapshot"]
            /\ mutated' = [mutated EXCEPT ![p] = SharedNow]
            /\ UNCHANGED branches
    /\ UNCHANGED <<thoughtHistory, branchKeys, enableThoughtLogging, mu, arg, input,
                   branchesSnapshot, historyLen, result, stderr, calls, accepted,
                   returned, before>>
    /\ UNCHANGED <<grants, ticket, lastFrame, backing, aliases, pair, run>>

\* RegisterBranch that returns early, without Unlock, when the branch is known.
RegisterBranchEarlyReturn(p) ==
    /\ pc[p] = "register"
    /\ IF isBranchRegistration(input[p]) /\ input[p].BranchId \notin branches
       THEN /\ branches' = branches \cup {input[p].BranchId}
            /\ pc' = [pc EXCEPT ![p] = "insert"]
            /\ UNCHANGED mutated
       ELSE /\ pc' = [pc EXCEPT ![p] =
                   IF isBranchRegistration(input[p]) THEN "log" ELSE "snapshot"]
            /\ mutated' = [mutated EXCEPT ![p] = SharedNow]
            /\ UNCHANGED branches
    /\ UNCHANGED <<thoughtHistory, branchKeys, enableThoughtLogging, mu, arg, input,
                   branchesSnapshot, historyLen, result, stderr, calls, accepted,
                   returned, before>>
    /\ UNCHANGED <<grants, ticket, lastFrame, backing, aliases, pair, run>>

\* The gate and the map lookup and insert.
RegisterBranch(p) ==
    /\ pc[p] = "register"
    /\ IF isBranchRegistration(input[p]) /\ input[p].BranchId \notin branches
       THEN /\ branches' = branches \cup {input[p].BranchId}
            /\ pc' = [pc EXCEPT ![p] = "insert"]
            /\ UNCHANGED mutated
       ELSE /\ pc' = [pc EXCEPT ![p] = "snapshot"]
            /\ mutated' = [mutated EXCEPT ![p] = SharedNow]
            /\ UNCHANGED branches
    /\ UNCHANGED <<thoughtHistory, branchKeys, enableThoughtLogging, mu, arg, input,
                   branchesSnapshot, historyLen, result, stderr, calls, accepted,
                   returned, before>>
    /\ UNCHANGED <<grants, ticket, lastFrame, backing, aliases, pair, run>>

\* The sorted insert into s.branchKeys.
InsertBranchKey(p) ==
    /\ pc[p] = "insert"
    /\ branchKeys' = insertKey(branchKeys, input[p].BranchId)
    /\ mutated' = [mutated EXCEPT ![p] =
           [keys |-> branchKeys', map |-> branches, len |-> thoughtHistory]]
    /\ pc' = [pc EXCEPT ![p] = "snapshot"]
    /\ backing' = backingAfter(backing, branchKeys, branchKeys')
    /\ branchesSnapshot' = [q \in Procs |->
           readThrough(branchesSnapshot[q], aliases[q], backing, branchKeys, branchKeys')]
    /\ UNCHANGED <<thoughtHistory, branches, enableThoughtLogging, mu, arg, input,
                   historyLen, result, stderr, calls, accepted, returned, before>>
    /\ UNCHANGED <<grants, ticket, lastFrame, aliases, pair, run>>

\* Snapshot that reports the thought number as the history length.
SnapshotThoughtNumber(p) ==
    /\ pc[p] = "snapshot"
    /\ historyLen' = [historyLen EXCEPT ![p] = input[p].ThoughtNumber]
    /\ branchesSnapshot' = [branchesSnapshot EXCEPT ![p] =
           IF Len(branchKeys) > 0 THEN Slice(branchKeys) ELSE NilSlice]
    /\ aliases' = [aliases EXCEPT ![p] = PrivateArray]
    /\ pc' = [pc EXCEPT ![p] = "unlock"]
    /\ UNCHANGED <<shared, enableThoughtLogging, mu, arg, input, result, stderr,
                   calls, accepted, returned, before, mutated>>
    /\ UNCHANGED <<grants, ticket, lastFrame, backing, pair, run>>

\* Snapshot that keeps a slice of s.branchKeys instead of a copy of it.
SnapshotWithoutCopy(p) ==
    /\ pc[p] = "snapshot"
    /\ historyLen' = [historyLen EXCEPT ![p] = thoughtHistory]
    /\ branchesSnapshot' = [branchesSnapshot EXCEPT ![p] =
           IF Len(branchKeys) > 0 THEN Slice(branchKeys) ELSE NilSlice]
    /\ aliases' = [aliases EXCEPT ![p] =
           IF Len(branchKeys) > 0 THEN backing.id ELSE PrivateArray]
    /\ pc' = [pc EXCEPT ![p] = "unlock"]
    /\ UNCHANGED <<shared, enableThoughtLogging, mu, arg, input, result, stderr,
                   calls, accepted, returned, before, mutated>>
    /\ UNCHANGED <<grants, ticket, lastFrame, backing, pair, run>>

\* historyLen and branchesSnapshot are taken; the snapshot is a copy in an
\* array of its own.
Snapshot(p) ==
    /\ pc[p] = "snapshot"
    /\ historyLen' = [historyLen EXCEPT ![p] = thoughtHistory]
    /\ branchesSnapshot' = [branchesSnapshot EXCEPT ![p] =
           IF Len(branchKeys) > 0 THEN Slice(branchKeys) ELSE NilSlice]
    /\ aliases' = [aliases EXCEPT ![p] = PrivateArray]
    /\ pc' = [pc EXCEPT ![p] = "unlock"]
    /\ UNCHANGED <<shared, enableThoughtLogging, mu, arg, input, result, stderr,
                   calls, accepted, returned, before, mutated>>
    /\ UNCHANGED <<grants, ticket, lastFrame, backing, pair, run>>

\* Unlock deferred to the return of the call: the mutex stays held.
UnlockDeferred(p) ==
    /\ pc[p] = "unlock"
    /\ pc' = [pc EXCEPT ![p] = "log"]
    /\ UNCHANGED <<shared, enableThoughtLogging, mu, arg, input, branchesSnapshot,
                   historyLen, result, stderr, calls, accepted, returned, before,
                   mutated>>
    /\ UNCHANGED <<grants, ticket, lastFrame, backing, aliases, pair, run>>

\* s.mu.Unlock()
Unlock(p) ==
    /\ pc[p] = "unlock"
    /\ mu' = "unlocked"
    /\ pc' = [pc EXCEPT ![p] = "log"]
    /\ UNCHANGED <<shared, enableThoughtLogging, arg, input, branchesSnapshot,
                   historyLen, result, stderr, calls, accepted, returned, before,
                   mutated>>
    /\ UNCHANGED <<grants, ticket, lastFrame, backing, aliases, pair, run>>

\* The bag of returned history lengths with one more occurrence of k.
Count(bag, k) == IF k \in DOMAIN bag THEN bag[k] ELSE 0
AddOne(bag, k) == [j \in DOMAIN bag \cup {k} |-> IF j = k THEN Count(bag, k) + 1 ELSE bag[j]]

\* LogAndRespond that derives nextThoughtNeeded from the two counters.
LogAndRespondDerivesNext(p) ==
    /\ pc[p] = "log"
    /\ stderr' = IF enableThoughtLogging THEN stderr + 1 ELSE stderr
    /\ lastFrame' = [lastFrame EXCEPT ![p] =
           IF enableThoughtLogging THEN formatThought(input[p]) ELSE NoFrame]
    /\ result' = [result EXCEPT ![p] =
           Success(Output(input[p].ThoughtNumber, input[p].TotalThoughts,
                          input[p].ThoughtNumber < input[p].TotalThoughts,
                          branchesSnapshot[p], historyLen[p]))]
    /\ returned' = AddOne(returned, historyLen[p])
    /\ pc' = [pc EXCEPT ![p] = "done"]
    /\ UNCHANGED <<shared, enableThoughtLogging, mu, arg, input, branchesSnapshot,
                   historyLen, calls, accepted, before, mutated>>
    /\ UNCHANGED <<grants, ticket, backing, aliases, pair, run>>

\* LogAndRespond that writes the frame whatever the logging flag is.
LogAndRespondAlwaysLogs(p) ==
    /\ pc[p] = "log"
    /\ stderr' = stderr + 1
    /\ lastFrame' = [lastFrame EXCEPT ![p] = formatThought(input[p])]
    /\ result' = [result EXCEPT ![p] =
           Success(Output(input[p].ThoughtNumber, input[p].TotalThoughts,
                          input[p].NextThoughtNeeded, branchesSnapshot[p],
                          historyLen[p]))]
    /\ returned' = AddOne(returned, historyLen[p])
    /\ pc' = [pc EXCEPT ![p] = "done"]
    /\ UNCHANGED <<shared, enableThoughtLogging, mu, arg, input, branchesSnapshot,
                   historyLen, calls, accepted, before, mutated>>
    /\ UNCHANGED <<grants, ticket, backing, aliases, pair, run>>

\* The frame is written if logging is enabled, the Output is built and returned.
LogAndRespond(p) ==
    /\ pc[p] = "log"
    /\ stderr' = IF enableThoughtLogging THEN stderr + 1 ELSE stderr
    /\ lastFrame' = [lastFrame EXCEPT ![p] =
           IF enableThoughtLogging THEN formatThought(input[p]) ELSE NoFrame]
    /\ result' = [result EXCEPT ![p] =
           Success(Output(input[p].ThoughtNumber, input[p].TotalThoughts,
                          input[p].NextThoughtNeeded, branchesSnapshot[p],
                          historyLen[p]))]
    /\ returned' = AddOne(returned, historyLen[p])
    /\ pc' = [pc EXCEPT ![p] = "done"]
    /\ UNCHANGED <<shared, enableThoughtLogging, mu, arg, input, branchesSnapshot,
                   historyLen, calls, accepted, before, mutated>>
    /\ UNCHANGED <<grants, ticket, backing, aliases, pair, run>>

Next ==
    \/ \E p \in Procs, in \in Inputs : Call(p, in)
    \/ \E p \in Procs : Lock(p)
    \/ \E p \in Procs : AppendHistory(p)
    \/ \E p \in Procs : RegisterBranch(p)
    \/ \E p \in Procs : InsertBranchKey(p)
    \/ \E p \in Procs : Snapshot(p)
    \/ \E p \in Procs : Unlock(p)
    \/ \E p \in Procs : LogAndRespond(p)

Spec == Init /\ [][Next]_vars

\* The specification that follows the backing array of s.branchKeys.
AliasNext ==
    \/ \E p \in Procs, in \in AliasInputs : AliasCall(p, in)
    \/ \E p \in Procs : Lock(p)
    \/ \E p \in Procs : AppendHistory(p)
    \/ \E p \in Procs : RegisterBranch(p)
    \/ \E p \in Procs : InsertBranchKey(p)
    \/ \E p \in Procs : Snapshot(p)
    \/ \E p \in Procs : Unlock(p)
    \/ \E p \in Procs : LogAndRespond(p)

AliasSpec == Init /\ [][AliasNext]_vars

\* The inputs of the fair specification: a rejected one, one without a
\* branch, two branch registrations and a branch identifier without trigger.
LiveInputs ==
    { ThoughtData(StrT, FALSE, 0, 1, FALSE, 0, -1, StrA, FALSE),
      ThoughtData(StrT, TRUE, 2, 1, FALSE, 0, 0, EmptyString, FALSE),
      ThoughtData(StrT, FALSE, 1, 1, FALSE, 0, -1, StrA, FALSE),
      ThoughtData(StrT, FALSE, 1, 1, FALSE, 0, -1, StrB, FALSE),
      ThoughtData(StrT, FALSE, 1, 1, FALSE, 0, 1, StrA, FALSE) }

LiveNext ==
    \/ \E p \in Procs, in \in LiveInputs : Call(p, in)
    \/ \E p \in Procs : Lock(p)
    \/ \E p \in Procs : AppendHistory(p)
    \/ \E p \in Procs : RegisterBranch(p)
    \/ \E p \in Procs : InsertBranchKey(p)
    \/ \E p \in Procs : Snapshot(p)
    \/ \E p \in Procs : Unlock(p)
    \/ \E p \in Procs : LogAndRespond(p)

\* The scheduling of goroutines: a goroutine that can run its next statement
\* eventually runs it, and a goroutine waiting for a mutex that stays free
\* eventually gets it. Callers are not obliged to call.
Fairness ==
    \A p \in Procs :
        /\ WF_vars(Lock(p))
        /\ WF_vars(AppendHistory(p))
        /\ WF_vars(RegisterBranch(p))
        /\ WF_vars(InsertBranchKey(p))
        /\ WF_vars(Snapshot(p))
        /\ WF_vars(Unlock(p))
        /\ WF_vars(LogAndRespond(p))

FairSpec == Init /\ [][LiveNext]_vars /\ Fairness

----------------------------------------------------------------------------
\* ProcessThought run from call to return by one goroutine on the server
\* value s; writeOk says whether os.Stderr accepts the frame. The error of
\* fmt.Fprintln is discarded, so this variant, which returns it, is not the code.
processThoughtReturnsWriteError(s, in, writeOk) ==
    IF validateThoughtData(in) # NilErr
    THEN [server |-> s, result |-> Failure(validateThoughtData(in)), wrote |-> FALSE]
    ELSE LET normalized == normalize(in)
             registers == isBranchRegistration(normalized) /\ normalized.BranchId \notin s.branches
             after == [s EXCEPT
                          !.thoughtHistory = @ + 1,
                          !.branches = IF registers THEN @ \cup {normalized.BranchId} ELSE @,
                          !.branchKeys = IF registers THEN insertKey(@, normalized.BranchId) ELSE @]
             snapshot == IF Len(after.branchKeys) > 0 THEN Slice(after.branchKeys)
                                                      ELSE NilSlice
         IN [server |-> after,
             result |-> IF s.enableThoughtLogging /\ ~writeOk
                        THEN Failure("write frame")
                        ELSE Success(Output(normalized.ThoughtNumber, normalized.TotalThoughts,
                                            normalized.NextThoughtNeeded, snapshot,
                                            after.thoughtHistory)),
             wrote |-> s.enableThoughtLogging /\ writeOk]

\* ProcessThought run from call to return by one goroutine on the server
\* value s; writeOk says whether os.Stderr accepts the frame.
processThought(s, in, writeOk) ==
    IF validateThoughtData(in) # NilErr
    THEN [server |-> s, result |-> Failure(validateThoughtData(in)), wrote |-> FALSE]
    ELSE LET normalized == normalize(in)
             registers == isBranchRegistration(normalized) /\ normalized.BranchId \notin s.branches
             after == [s EXCEPT
                          !.thoughtHistory = @ + 1,
                          !.branches = IF registers THEN @ \cup {normalized.BranchId} ELSE @,
                          !.branchKeys = IF registers THEN insertKey(@, normalized.BranchId) ELSE @]
             snapshot == IF Len(after.branchKeys) > 0 THEN Slice(after.branchKeys)
                                                      ELSE NilSlice
         IN [server |-> after,
             result |-> Success(Output(normalized.ThoughtNumber, normalized.TotalThoughts,
                                       normalized.NextThoughtNeeded, snapshot,
                                       after.thoughtHistory)),
             wrote |-> s.enableThoughtLogging /\ writeOk]

\* The same input is given to the server with logging and to the one without.
PairStep(in, writeOk) ==
    /\ pair.n < MaxCalls
    /\ LET on == processThought(pair.on, in, writeOk)
           off == processThought(pair.off, in, writeOk)
       IN pair' = [on |-> on.server, off |-> off.server,
                   resultOn |-> on.result, resultOff |-> off.result,
                   last |-> in, writeOk |-> writeOk,
                   writes |-> pair.writes + (IF on.wrote THEN 1 ELSE 0)
                                          + (IF off.wrote THEN 1 ELSE 0),
                   n |-> pair.n + 1]
    /\ UNCHANGED <<shared, enableThoughtLogging, mu, pc, arg, input, branchesSnapshot,
                   historyLen, result, stderr, calls, accepted, returned, before,
                   mutated, grants, ticket, lastFrame, backing, aliases, run>>

PairNext == \E in \in Inputs, writeOk \in BOOLEAN : PairStep(in, writeOk)

PairSpec == Init /\ [][PairNext]_vars

----------------------------------------------------------------------------
\* run() of the entry point, statement by statement. outcome is "returned"
\* when run gives control back to its caller and "exited" when it ends the
\* process itself (log.Fatal, os.Exit); a return runs the deferred f.Close,
\* an exit does not.
Return(r, failure, e) ==
    [r EXCEPT !.pc = "ended", !.failed = failure, !.outcome = "returned", !.err = e,
              !.f = IF r.f = "open" THEN "closed" ELSE r.f]

Exit(r, failure, e) ==
    [r EXCEPT !.pc = "ended", !.failed = failure, !.outcome = "exited", !.err = e]

RunUnchanged ==
    UNCHANGED <<shared, enableThoughtLogging, mu, pc, arg, input, branchesSnapshot,
                historyLen, result, stderr, calls, accepted, returned, before,
                mutated, grants, ticket, lastFrame, backing, aliases, pair>>

\* The caller (main or a test) sets the flags and calls run.
RunStart(logPath, httpAddr) ==
    /\ run.pc = "not started"
    /\ run' = [run EXCEPT !.pc = "open", !.flagLogPath = logPath,
                          !.flagHTTPAddr = httpAddr, !.outcome = "running"]
    /\ RunUnchanged

\* os.OpenFile of the log path, when one is set: a directory cannot be
\* opened for writing, a file may or may not be.
OpenLogFile(ok) ==
    /\ run.pc = "open"
    /\ run.flagLogPath = "directory" => ~ok
    /\ run.flagLogPath = "" => ok
    /\ run' = IF run.flagLogPath = "" THEN [run EXCEPT !.pc = "server"]
              ELSE IF ok THEN [run EXCEPT !.pc = "server", !.f = "open"]
              ELSE Exit(run, "open", ErrOpen)
    /\ RunUnchanged

\* slog.SetDefault and mcp.NewServer.
NewMCPServer ==
    /\ run.pc = "server"
    /\ run' = [run EXCEPT !.pc = "input schema"]
    /\ RunUnchanged

\* jsonschema.For[ThoughtData] and the four minimums.
InputSchema(ok) ==
    /\ run.pc = "input schema"
    /\ run' = IF ok THEN [run EXCEPT !.pc = "output schema"]
              ELSE Return(run, "input schema", ErrInputSchema)
    /\ RunUnchanged

\* jsonschema.For[Output].
OutputSchema(ok) ==
    /\ run.pc = "output schema"
    /\ run' = IF ok THEN [run EXCEPT !.pc = "tool"]
              ELSE Exit(run, "output schema", ErrOutputSchema)
    /\ RunUnchanged

\* NewSequentialThinkingServer, mcp.AddTool and signal.NotifyContext.
AddTool ==
    /\ run.pc = "tool"
    /\ run' = [run EXCEPT !.pc = IF run.flagHTTPAddr # "" THEN "http" ELSE "stdio"]
    /\ RunUnchanged

\* httpSrv.ListenAndServe, which always returns a non-nil error: it cannot
\* listen, or it served until it was closed.
ServeHTTP(cause) ==
    /\ run.pc = "http"
    /\ run.flagHTTPAddr = "invalid" => cause = "listen"
    /\ run' = Return(run, cause, ErrServeHTTP)
    /\ RunUnchanged

\* srv.Run on the stdio transport.
ServeStdio(ok) ==
    /\ run.pc = "stdio"
    /\ run' = IF ok THEN Return(run, "none", NilErr)
              ELSE Exit(run, "stdio", ErrServeStdio)
    /\ RunUnchanged

RunNext ==
    \/ \E logPath \in LogPaths, httpAddr \in HTTPAddrs : RunStart(logPath, httpAddr)
    \/ \E ok \in BOOLEAN : OpenLogFile(ok)
    \/ NewMCPServer
    \/ \E ok \in BOOLEAN : InputSchema(ok)
    \/ \E ok \in BOOLEAN : OutputSchema(ok)
    \/ AddTool
    \/ \E cause \in {"listen", "closed"} : ServeHTTP(cause)
    \/ \E ok \in BOOLEAN : ServeStdio(ok)

RunSpec == Init /\ [][RunNext]_vars

----------------------------------------------------------------------------
\* Definitions used by the properties.

Range(s) == {s[i] : i \in 1..Len(s)}
Quiescent == \A p \in Procs : pc[p] \in {"idle", "done"}
Returned(p) == pc[p] = "done" /\ result[p].hasResult
InCall(p) == pc[p] \notin {"idle", "done"}
StrictlySorted(s) == \A i \in 1..(Len(s) - 1) : StrLess(s[i], s[i + 1])

\* The []string a call has to return for a branch list.
AsSlice(keys) == IF keys = <<>> THEN NilSlice ELSE Slice(keys)

\* C1: every valid call increments the history count by exactly one: the
\* count is the number of accepted calls that have passed the append, no
\* history length is returned twice, and when no call is in flight the
\* lengths returned are exactly 1..N for the N accepted calls.
C1_OneIncrementPerCall ==
    /\ thoughtHistory =
           accepted - Cardinality({p \in Procs : pc[p] \in {"lock", "append"}})
    /\ \A k \in DOMAIN returned : returned[k] = 1 /\ k \in 1..thoughtHistory
    /\ Quiescent => thoughtHistory = accepted /\ DOMAIN returned = 1..accepted

\* Three accepted calls, at least one of them a branch registration, have
\* returned the lengths 1, 2 and 3 and no call is in flight.
C1_Witness ==
    /\ Quiescent
    /\ accepted = 3
    /\ DOMAIN returned = 1..3
    /\ branchKeys # <<>>

\* C2: the branch list and the history length a call returns are the shared
\* state as it was when that call ended its own mutation; the list is nil
\* exactly when the branch index was empty then.
C2_SnapshotIsOwnState ==
    \A p \in Procs :
        /\ pc[p] = "unlock" =>
               /\ branchesSnapshot[p] = AsSlice(branchKeys)
               /\ historyLen[p] = thoughtHistory
        /\ pc[p] \in {"unlock", "log"} =>
               /\ branchesSnapshot[p] = AsSlice(mutated[p].keys)
               /\ historyLen[p] = mutated[p].len
        /\ Returned(p) =>
               /\ result[p].output.Branches = AsSlice(mutated[p].keys)
               /\ result[p].output.Branches.isNil = (mutated[p].keys = <<>>)
               /\ result[p].output.ThoughtHistoryLength = mutated[p].len

\* A call has returned no branches and length 1 while a later call has since
\* registered a branch and is still in flight.
C2_Witness ==
    \E p, q \in Procs :
        /\ Returned(p)
        /\ result[p].output.Branches = NilSlice
        /\ result[p].output.ThoughtHistoryLength = 1
        /\ pc[q] = "log"
        /\ branchesSnapshot[q] = Slice(<<StrB>>)
        /\ thoughtHistory = 2

\* C3: the branch list of the server, of every snapshot and of every
\* response is in strictly ascending byte-wise order.
C3_BranchesSorted ==
    /\ StrictlySorted(branchKeys)
    /\ \A p \in Procs :
           /\ StrictlySorted(branchesSnapshot[p].elems)
           /\ StrictlySorted(result[p].output.Branches.elems)

\* "b" was registered, then "a" (the response was ["a","b"]), then "ab".
C3_Witness ==
    /\ branchKeys = <<StrA, StrAB, StrB>>
    /\ \E p \in Procs : Returned(p) /\ result[p].output.Branches = Slice(<<StrA, StrB>>)

\* A Call step of goroutine p: a call is started and no other goroutine moves.
CallStep(p) ==
    /\ calls' = calls + 1
    /\ pc'[p] # "idle"
    /\ \A q \in Procs \ {p} : pc'[q] = pc[q] /\ arg'[q] = arg[q] /\ result'[q] = result[q]

\* The call of p was rejected with error e and changed nothing on the server.
RejectedWith(p, e) ==
    /\ pc'[p] = "done"
    /\ result'[p].err = e
    /\ ~result'[p].hasResult
    /\ thoughtHistory' = thoughtHistory
    /\ branches' = branches
    /\ branchKeys' = branchKeys

\* C4: a call whose thought text is empty fails with the invalid-thought
\* error, returns no result and leaves history and branch index unchanged.
C4_EmptyThoughtRejected ==
    [][\A p \in Procs :
          CallStep(p) /\ arg'[p].Thought = EmptyString => RejectedWith(p, ErrThought)]_vars

\* A call with empty text was rejected on a server that holds history and a
\* branch, while another call is inside the critical section.
C4_Witness ==
    \E p, q \in Procs :
        /\ pc[p] = "done"
        /\ arg[p].Thought = EmptyString
        /\ arg[p].ThoughtNumber = 1
        /\ arg[p].TotalThoughts = 1
        /\ result[p] = Failure(ErrThought)
        /\ mu = q
        /\ thoughtHistory = 2
        /\ branchKeys = <<StrA>>

\* C5: with non-empty text, a thoughtNumber <= 0 fails with the
\* invalid-thoughtNumber error, and a thoughtNumber > 0 with totalThoughts <= 0
\* fails with the invalid-totalThoughts error; history and branch index are
\* unchanged, also for an input that carries a branch registration.
C5_BadNumbersRejected ==
    [][\A p \in Procs :
          CallStep(p) /\ arg'[p].Thought # EmptyString =>
             /\ arg'[p].ThoughtNumber <= 0 => RejectedWith(p, ErrThoughtNumber)
             /\ arg'[p].ThoughtNumber > 0 /\ arg'[p].TotalThoughts <= 0 =>
                    RejectedWith(p, ErrTotalThoughts)]_vars

\* Both rejections have happened, each for an input that asks to register
\* branch "a", and "a" is not in the branch index.
C5_Witness ==
    \E p, q \in Procs :
        /\ pc[p] = "done" /\ result[p] = Failure(ErrThoughtNumber)
        /\ arg[p].ThoughtNumber = 0 /\ arg[p].TotalThoughts = 1
        /\ pc[q] = "done" /\ result[q] = Failure(ErrTotalThoughts)
        /\ arg[q].ThoughtNumber = 1 /\ arg[q].TotalThoughts = 0
        /\ arg[p].BranchFromThought < 0 /\ arg[p].BranchId = StrA
        /\ arg[q].BranchFromThought < 0 /\ arg[q].BranchId = StrA
        /\ thoughtHistory = 1
        /\ branches = {}

\* The validation rules an input violates, by their rank in the fixed order.
Violations(in) ==
    {r \in 1..3 : \/ r = 1 /\ in.Thought = EmptyString
                  \/ r = 2 /\ in.ThoughtNumber <= 0
                  \/ r = 3 /\ in.TotalThoughts <= 0}
RuleError(r) == IF r = 1 THEN ErrThought ELSE IF r = 2 THEN ErrThoughtNumber ELSE ErrTotalThoughts
FirstViolation(in) == CHOOSE r \in Violations(in) : \A o \in Violations(in) : r <= o

\* C6: an input that violates several rules is rejected with the error of the
\* first one in the order text, thoughtNumber, totalThoughts, in a step that
\* neither takes the lock nor changes the server state; a goroutine that
\* waits for or holds the lock has an input that violates no rule.
C6_FirstFailingRuleWins ==
    [][\A p \in Procs :
          /\ CallStep(p) /\ Cardinality(Violations(arg'[p])) >= 2 =>
                 /\ RejectedWith(p, RuleError(FirstViolation(arg'[p])))
                 /\ mu' = mu
          /\ InCall(p)' => Violations(arg'[p]) = {}]_vars

\* Inputs violating all three rules and the two number rules were rejected
\* with the thought error and the thoughtNumber error.
C6_Witness ==
    \E p, q \in Procs :
        /\ pc[p] = "done" /\ Violations(arg[p]) = {1, 2, 3} /\ result[p].err = ErrThought
        /\ pc[q] = "done" /\ Violations(arg[q]) = {2, 3} /\ result[q].err = ErrThoughtNumber

\* The condition under which an input is acceptable.
Acceptable(in) == in.Thought # EmptyString /\ in.ThoughtNumber > 0 /\ in.TotalThoughts > 0

\* C7: a call succeeds exactly when its input has non-empty text and both
\* numbers positive, whatever the history: a call in flight has such an
\* input, and a finished call returned a result and no error iff it has.
C7_AcceptedIffValid ==
    \A p \in Procs :
        /\ InCall(p) => Acceptable(arg[p])
        /\ pc[p] = "done" =>
               /\ (result[p].hasResult /\ result[p].err = NilErr) <=> Acceptable(arg[p])
               /\ (~result[p].hasResult /\ result[p].err # NilErr) <=> ~Acceptable(arg[p])

\* Thought number 2 of 1 was accepted first, then thought number 1 again
\* after number 1 had already been accepted once.
C7_Witness ==
    \E p, q \in Procs :
        /\ Returned(p) /\ arg[p].ThoughtNumber = 2 /\ arg[p].TotalThoughts = 1
        /\ result[p].output.ThoughtHistoryLength = 2
        /\ Returned(q) /\ arg[q].ThoughtNumber = 1
        /\ result[q].output.ThoughtHistoryLength = 3

\* The larger of two integers.
Max(a, b) == IF a >= b THEN a ELSE b

\* C8: the total returned by an accepted call is the larger of the input's
\* thoughtNumber and totalThoughts, and the call's own copy of the input
\* differs from the input in nothing else.
C8_TotalNormalized ==
    \A p \in Procs :
        /\ Returned(p) =>
               result[p].output.TotalThoughts =
                   Max(arg[p].ThoughtNumber, arg[p].TotalThoughts)
        /\ InCall(p) \/ Returned(p) =>
               input[p] = [arg[p] EXCEPT !.TotalThoughts =
                              Max(arg[p].ThoughtNumber, arg[p].TotalThoughts)]

\* Number 2 of 1 returned total 2 and number 1 of 2 returned total 2.
C8_Witness ==
    \E p, q \in Procs :
        /\ Returned(p) /\ arg[p].ThoughtNumber = 2 /\ arg[p].TotalThoughts = 1
        /\ result[p].output.TotalThoughts = 2
        /\ Returned(q) /\ arg[q].ThoughtNumber = 1 /\ arg[q].TotalThoughts = 2
        /\ result[q].output.TotalThoughts = 2

\* The sequence s without the elements equal to x.
Without(s, x) == SelectSeq(s, LAMBDA e : e # x)

\* C9: an accepted call with a true branch trigger and a non-empty branchId
\* that was not in the branch index when the call got the lock returns a
\* sorted branch list that contains branchId once and is, without it, the
\* list before the call.
C9_NewBranchInserted ==
    \A p \in Procs :
        ( /\ Returned(p)
          /\ arg[p].BranchFromThought < 0
          /\ arg[p].BranchId # EmptyString
          /\ arg[p].BranchId \notin Range(before[p].keys) ) =>
            LET got == result[p].output.Branches
            IN /\ ~got.isNil
               /\ Len(got.elems) = Len(before[p].keys) + 1
               /\ arg[p].BranchId \in Range(got.elems)
               /\ Without(got.elems, arg[p].BranchId) = before[p].keys
               /\ StrictlySorted(got.elems)

\* "ab" was registered on a server that knew "a" and "b": it went between them.
C9_Witness ==
    \E p \in Procs :
        /\ Returned(p)
        /\ arg[p].BranchFromThought < 0
        /\ arg[p].BranchId = StrAB
        /\ before[p].keys = <<StrA, StrB>>
        /\ result[p].output.Branches = Slice(<<StrA, StrAB, StrB>>)

\* C10: an accepted call whose branch trigger is false, or whose branchId is
\* empty, leaves map and key list as they were when it got the lock and
\* raises the history count by one.
C10_NoBranchWithoutTrigger ==
    \A p \in Procs :
        ( /\ Returned(p) \/ pc[p] \in {"snapshot", "unlock", "log"}
          /\ arg[p].BranchFromThought >= 0 \/ arg[p].BranchId = EmptyString ) =>
            /\ mutated[p].keys = before[p].keys
            /\ mutated[p].map = before[p].map
            /\ mutated[p].len = before[p].len + 1
            /\ mu = p => branchKeys = before[p].keys /\ branches = before[p].map
            /\ Returned(p) => result[p].output.Branches = AsSlice(before[p].keys)

\* A revision with branchFromThought 1 and branchId "a" returned no branches,
\* and a call with a true trigger and an empty branchId returned only "b".
C10_Witness ==
    \E p, q \in Procs :
        /\ Returned(p)
        /\ arg[p].BranchFromThought = 1 /\ arg[p].BranchId = StrA /\ arg[p].IsRevision
        /\ result[p].output.Branches = NilSlice
        /\ result[p].output.ThoughtHistoryLength = 1
        /\ Returned(q)
        /\ arg[q].BranchFromThought = -1 /\ arg[q].BranchId = EmptyString
        /\ result[q].output.Branches = Slice(<<StrB>>)
        /\ result[q].output.ThoughtHistoryLength = 3

\* C11: a valid submission with branchFromThought >= 1 (the number of a prior
\* thought, as documented and as the input schema requires) and a non-empty
\* branchId returns a branch list that contains branchId.
C11_DocumentedBranchRegistered ==
    \A p \in Procs :
        Returned(p) /\ arg[p].BranchFromThought >= 1 /\ arg[p].BranchId # EmptyString =>
            arg[p].BranchId \in Range(result[p].output.Branches.elems)

\* C12: a branch registration for an identifier that is in the branch index
\* when the call gets the lock leaves map and key list as they were and
\* raises the history count by one.
C12_RegistrationIdempotent ==
    \A p \in Procs :
        ( /\ Returned(p)
          /\ arg[p].BranchFromThought < 0
          /\ arg[p].BranchId # EmptyString
          /\ arg[p].BranchId \in before[p].map ) =>
            /\ mutated[p].keys = before[p].keys
            /\ mutated[p].map = before[p].map
            /\ mutated[p].len = before[p].len + 1
            /\ result[p].output.Branches = Slice(before[p].keys)
            /\ result[p].output.ThoughtHistoryLength = before[p].len + 1

\* "b" was registered a second time on a server that knew "a" and "b".
C12_Witness ==
    \E p \in Procs :
        /\ Returned(p)
        /\ arg[p].BranchFromThought < 0
        /\ arg[p].BranchId = StrB
        /\ before[p].keys = <<StrA, StrB>>
        /\ result[p].output.Branches = Slice(<<StrA, StrB>>)
        /\ result[p].output.ThoughtHistoryLength = 3

\* C13: in every step the history count stays or grows by one, and it grows
\* only in the append of a call that passed validation and holds the lock.
C13_HistoryMonotonic ==
    [][\/ thoughtHistory' = thoughtHistory
       \/ /\ thoughtHistory' = thoughtHistory + 1
          /\ \E p \in Procs : /\ pc[p] = "append"
                               /\ pc'[p] = "register"
                               /\ mu = p
                               /\ Acceptable(arg[p])]_vars

\* The count has reached 2 and a rejected call has come after that.
C13_Witness ==
    \E p, q \in Procs :
        /\ thoughtHistory = 2
        /\ pc[p] = "done" /\ result[p].err = ErrThoughtNumber
        /\ Returned(q) /\ result[q].output.ThoughtHistoryLength = 2
        /\ calls = 3

\* A call whose critical section is over, and the history length and branch
\* list it took there.
PastCriticalSection(p) == pc[p] \in {"log"} \/ Returned(p)
LenOf(p) == IF pc[p] = "done" THEN result[p].output.ThoughtHistoryLength ELSE historyLen[p]
BranchesOf(p) == IF pc[p] = "done" THEN result[p].output.Branches ELSE branchesSnapshot[p]

\* C14: no step removes an identifier from the map or from the key list, and
\* of two calls the one whose critical section came later returns a list
\* that contains every identifier of the other's list.
C14_BranchesNeverRemoved ==
    /\ [][/\ branches \subseteq branches'
          /\ Range(branchKeys) \subseteq Range(branchKeys')]_vars
    /\ [](\A p, q \in Procs :
             PastCriticalSection(p) /\ PastCriticalSection(q) /\ ticket[p] < ticket[q] =>
                 /\ Range(BranchesOf(p).elems) \subseteq Range(BranchesOf(q).elems)
                 /\ Range(BranchesOf(q).elems) \subseteq Range(branchKeys))

\* The call granted the lock earlier returned ["b"], the later one ["a","b"].
C14_Witness ==
    \E p, q \in Procs :
        /\ Returned(p) /\ Returned(q)
        /\ ticket[p] < ticket[q]
        /\ result[p].output.Branches = Slice(<<StrB>>)
        /\ result[q].output.Branches = Slice(<<StrA, StrB>>)

\* The program points of ProcessThought between Lock and Unlock.
CriticalSection == {"append", "register", "insert", "snapshot", "unlock"}

\* C15: at most one call is between Lock and Unlock, it is the holder of
\* the mutex from the append to the snapshot, and history, map and key list
\* change, and the locals of the snapshot are read, only in steps of the
\* holder.
C15_MutualExclusion ==
    /\ [](/\ Cardinality({p \in Procs : pc[p] \in CriticalSection}) <= 1
          /\ \A p \in Procs : pc[p] \in CriticalSection <=> mu = p)
    /\ [][\A p \in Procs :
             /\ (shared' # shared /\ pc'[p] # pc[p]) =>
                    mu = p /\ mu' = p /\ pc[p] \in CriticalSection
             /\ (pc[p] = "snapshot" /\ pc'[p] = "unlock") => mu = p /\ mu' = p
             /\ (mu = p /\ mu' # p) => pc[p] = "unlock" /\ pc'[p] = "log"]_vars

\* One call is inserting a key while the other waits for the lock.
C15_Witness ==
    \E p, q \in Procs :
        /\ pc[p] = "insert" /\ mu = p
        /\ pc[q] = "lock"
        /\ thoughtHistory = 2

\* C16: of two accepted calls, the one whose critical section was granted
\* first returns the strictly smaller history length.
C16_LengthFollowsGrantOrder ==
    \A p, q \in Procs :
        PastCriticalSection(p) /\ PastCriticalSection(q) /\ ticket[p] < ticket[q] =>
            LenOf(p) < LenOf(q)

\* The call granted second, with the smaller thought number, has returned
\* length 2 while the call granted first has not returned yet.
C16_Witness ==
    \E p, q \in Procs :
        /\ pc[p] = "log" /\ ticket[p] = 1 /\ historyLen[p] = 1
        /\ Returned(q) /\ ticket[q] = 2 /\ result[q].output.ThoughtHistoryLength = 2
        /\ arg[q].ThoughtNumber < arg[p].ThoughtNumber

\* C17: a call that is about to write its log frame does not hold the
\* mutex, and a call waiting for the lock can take it while the other call
\* is at its log write.
C17_LoggingOutsideLock ==
    \A p \in Procs :
        pc[p] = "log" =>
            /\ mu # p
            /\ \A q \in Procs \ {p} : pc[q] = "lock" => ENABLED Lock(q)

\* With logging enabled, one call is at its log write while the other is
\* inside the critical section.
C17_Witness ==
    \E p, q \in Procs :
        /\ enableThoughtLogging
        /\ pc[p] = "log"
        /\ pc[q] = "insert" /\ mu = q

\* C18: the number of frames written is the number of accepted calls that
\* have returned if logging is enabled and 0 if it is disabled; when no
\* call is in flight that is the history length.
C18_OneFramePerAcceptedCall ==
    /\ stderr = IF enableThoughtLogging
                THEN accepted - Cardinality({p \in Procs : InCall(p)})
                ELSE 0
    /\ Quiescent /\ enableThoughtLogging => stderr = thoughtHistory

\* With logging enabled, two accepted calls and one rejected call have
\* returned and two frames were written.
C18_Witness ==
    /\ enableThoughtLogging
    /\ Quiescent
    /\ calls = 3
    /\ accepted = 2
    /\ stderr = 2

\* C19: under fair scheduling every call that has begun returns and every
\* holder of the mutex releases it; a call that has left the critical
\* section does not hold the mutex and has applied its whole mutation.
C19_CallsTerminate ==
    /\ \A p \in Procs : InCall(p) ~> (pc[p] = "done")
    /\ \A p \in Procs : (mu = p) ~> (mu # p)
    /\ [](\A p \in Procs : pc[p] \in {"log", "done", "idle"} => mu # p)
    /\ [](mu = "unlocked" => branches = Range(branchKeys))

\* With logging enabled, one call is inside the critical section
\* registering a known branch while the other waits for the lock.
C19_Witness ==
    \E p, q \in Procs :
        /\ enableThoughtLogging
        /\ pc[p] = "register" /\ mu = p
        /\ isBranchRegistration(input[p]) /\ input[p].BranchId \in branches
        /\ pc[q] = "lock"

\* C20: an accepted call returns the thoughtNumber and the nextThoughtNeeded
\* of its input, whatever the server state and the other input fields are.
C20_NumberAndNextVerbatim ==
    \A p \in Procs :
        Returned(p) =>
            /\ result[p].output.ThoughtNumber = arg[p].ThoughtNumber
            /\ result[p].output.NextThoughtNeeded = arg[p].NextThoughtNeeded

\* A revision numbered 2 of 1 with nextThoughtNeeded and needsMoreThoughts
\* set returned (2, TRUE), and a branch registration numbered 1 of 2 without
\* nextThoughtNeeded returned (1, FALSE), on a server with history.
C20_Witness ==
    \E p, q \in Procs :
        /\ Returned(p)
        /\ arg[p].ThoughtNumber = 2 /\ arg[p].TotalThoughts = 1
        /\ arg[p].NextThoughtNeeded /\ arg[p].IsRevision /\ arg[p].NeedsMoreThoughts
        /\ result[p].output.ThoughtNumber = 2 /\ result[p].output.NextThoughtNeeded
        /\ Returned(q)
        /\ arg[q].ThoughtNumber = 1 /\ arg[q].TotalThoughts = 2
        /\ ~arg[q].NextThoughtNeeded /\ arg[q].BranchFromThought < 0
        /\ result[q].output.ThoughtNumber = 1 /\ ~result[q].output.NextThoughtNeeded
        /\ thoughtHistory = 3

\* C21: for the same sequence of inputs the server with logging and the
\* server without return the same result and error and have the same
\* history length, map and key list, and an acceptable input succeeds on
\* both also when the write of the frame fails.
C21_LoggingDoesNotChangeOutcome ==
    /\ pair.resultOn = pair.resultOff
    /\ pair.on.thoughtHistory = pair.off.thoughtHistory
    /\ pair.on.branches = pair.off.branches
    /\ pair.on.branchKeys = pair.off.branchKeys
    /\ pair.n > 0 =>
           /\ Acceptable(pair.last) <=> pair.resultOn.hasResult /\ pair.resultOn.err = NilErr
           /\ Acceptable(pair.last) <=> pair.resultOff.hasResult /\ pair.resultOff.err = NilErr

\* Three inputs were given to both servers, a frame was written for one of
\* them, the write of the last frame failed, and both servers know "a", "b".
C21_Witness ==
    /\ pair.n = 3
    /\ pair.writes = 1
    /\ ~pair.writeOk
    /\ Acceptable(pair.last)
    /\ pair.on.branchKeys = <<StrA, StrB>>
    /\ pair.resultOn.output.Branches = Slice(<<StrA, StrB>>)

\* C22: run reports its failures to its caller as a returned non-nil error
\* and does not end the process itself: when the log file cannot be opened
\* run returns an error mentioning "open", and when serving on stdio fails
\* run returns the error "serve sequential thinking mcp stdio server".
C22_RunReturnsItsFailures ==
    /\ run.failed = "open" => run.outcome = "returned" /\ run.err = ErrOpen
    /\ run.failed = "stdio" => run.outcome = "returned" /\ run.err = ErrServeStdio

\* C23 as stated: a call's frame is a "Branch" frame if and only if the
\* mutation treats the submission as a branch registration.
C23_BranchFrameIffRegistration ==
    \A p \in Procs :
        lastFrame[p].written =>
            (lastFrame[p].prefix = "Branch" <=> isBranchRegistration(input[p]))

\* C23: a call's frame is a "Branch" frame, in green, if and only if the
\* submission is not a revision and its branch trigger is true, whatever
\* its branchId; a revision is logged as a "Revision" frame, in yellow,
\* also when the mutation registered its branch. So a Branch frame with
\* a non-empty branchId belongs to a registration, and a registration
\* that is not a revision is logged as a Branch frame.
C23_BranchFrameIffTriggerAndNoRevision ==
    \A p \in Procs :
        lastFrame[p].written =>
            /\ lastFrame[p].prefix = "Branch" <=>
                   ~input[p].IsRevision /\ input[p].BranchFromThought < 0
            /\ lastFrame[p].prefix = "Revision" <=> input[p].IsRevision
            /\ lastFrame[p].prefix = "Branch" <=> lastFrame[p].color = "green"
            /\ lastFrame[p].prefix = "Revision" <=> lastFrame[p].color = "yellow"
            /\ lastFrame[p].prefix = "Branch" /\ input[p].BranchId # EmptyString =>
                   isBranchRegistration(input[p]) /\ input[p].BranchId \in branches
            /\ isBranchRegistration(input[p]) /\ ~input[p].IsRevision =>
                   lastFrame[p].prefix = "Branch"

\* One call wrote a Branch frame for a submission without branchId, which
\* registers nothing, and another wrote a Revision frame for a submission
\* whose branch "b" the mutation registered.
C23_Witness ==
    \E p, q \in Procs :
        /\ lastFrame[p].written /\ lastFrame[p].prefix = "Branch"
        /\ input[p].BranchId = EmptyString /\ ~isBranchRegistration(input[p])
        /\ lastFrame[q].written /\ lastFrame[q].prefix = "Revision"
        /\ isBranchRegistration(input[q]) /\ branchKeys = <<StrB>>

\* C24: the frame of every revision has the header "Revision N/M (revising
\* thought R)" with N the thought number, M the normalised total and R the
\* input's revisesThought, whatever the value of revisesThought.
C24_RevisionHeaderNamesRevisedThought ==
    \A p \in Procs :
        lastFrame[p].written /\ arg[p].IsRevision =>
            /\ lastFrame[p].prefix = "Revision"
            /\ lastFrame[p].number = arg[p].ThoughtNumber
            /\ lastFrame[p].total = normalize(arg[p]).TotalThoughts
            /\ lastFrame[p].context = Revising(arg[p].RevisesThought)

\* C25: the branch list of a call does not change after the call has left
\* the critical section: while the call builds its response, and in the
\* response it returned, the list is the key list as it was when the call
\* ended its own mutation, whatever other calls inserted since, in place
\* or not.
C25_ReturnedBranchesImmutable ==
    \A p \in Procs :
        /\ pc[p] \in {"unlock", "log"} =>
               branchesSnapshot[p].elems = mutated[p].keys
        /\ pc[p] = "done" /\ result[p].hasResult =>
               result[p].output.Branches.elems = mutated[p].keys

\* A call holds the list "a", "ab", "b" outside the critical section, and
\* another call has since inserted "aa" before "ab" by the shift in place,
\* in the array of capacity four that held the three keys.
C25_Witness ==
    \E p \in Procs :
        /\ pc[p] \in {"log", "done"}
        /\ (IF pc[p] = "log" THEN branchesSnapshot[p]
                             ELSE result[p].output.Branches) = Slice(<<StrA, StrAB, StrB>>)
        /\ branchKeys = <<StrA, StrAA, StrAB, StrB>>
        /\ backing = [id |-> 3, cap |-> 4]

\* C26: whenever the mutex is free the keys of the map are the elements of
\* the key list, one element per key; and a call that reaches the insert
\* finds its identifier absent from the list, at the end or at a slot that
\* holds another identifier, so the guard on the slot never skips an insert.
C26_MapAndKeyListAgree ==
    /\ mu = "unlocked" =>
           /\ branches = Range(branchKeys)
           /\ Cardinality(branches) = Len(branchKeys)
    /\ \A p \in Procs :
           pc[p] = "insert" =>
               LET insertAt == SearchStrings(branchKeys, input[p].BranchId)
               IN /\ input[p].BranchId \in branches
                  /\ input[p].BranchId \notin Range(branchKeys)
                  /\ insertAt = Len(branchKeys)
                         \/ branchKeys[insertAt + 1] # input[p].BranchId

\* A call found "a" and "b" in the list, inserted "ab" between them by the
\* shift and has left the critical section: the mutex is free and map and
\* list both hold "a", "ab" and "b".
C26_Witness ==
    /\ mu = "unlocked"
    /\ branches = {StrA, StrAB, StrB}
    /\ branchKeys = <<StrA, StrAB, StrB>>
    /\ \E p \in Procs :
           /\ pc[p] = "log"
           /\ input[p].BranchId = StrAB
           /\ before[p].keys = <<StrA, StrB>>

====
